---- MODULE Spec2Model ----
(***************************************************************************)
(* Model of bin/cli.js of setup-npm-trusted-publish: one run of the        *)
(* command-line script, from the parsed arguments to process termination.  *)
(*                                                                         *)
(* A package name is a sequence of characters drawn from a small alphabet  *)
(* with one representative per character kind the name regex               *)
(* distinguishes: "a" (lowercase letter, digit, "-" or "~"), "." ("." or   *)
(* "_", allowed everywhere but in first position), "A" (any character no   *)
(* class admits), "@" and "/".                                             *)
(*                                                                         *)
(* The command lines drawn by Init are the ones node's parseArgs accepts  *)
(* (declared options only, --access with a value); a command line that     *)
(* parseArgs rejects throws at line 9, before any statement modelled here. *)
(*                                                                         *)
(* process.exit(code) ends the process at the call: statements after it,   *)
(* and the finally block of an enclosing try, do not run.                  *)
(***************************************************************************)
EXTENDS Integers, Sequences, FiniteSets

VARIABLES
    argv,          \* the command line, as parseArgs tokenises it
    pc,            \* position of the script
    exitCode,      \* the process's exit code, meaningful when pc = "done"
    dirExists,     \* packageDir exists on disk
    packageJsonExists, \* packageDir/package.json exists
    readmeExists,  \* packageDir/README.md exists
    events,        \* side effects and checks performed so far, in order
    executedCmd,   \* command line handed to execSync (<<>>: none)
    printedCmd,    \* manual publish command printed (<<>>: none)
    warned,        \* the cleanup warning was printed
    publishResult, \* outcome of execSync: "none", "ok" or "failed"
    rmResult       \* outcome of rm: "none", "ok" or "failed"

vars == <<argv, pc, exitCode, dirExists, packageJsonExists, readmeExists,
          events, executedCmd, printedCmd, warned, publishResult, rmResult>>

\* ---------------------------------------------------------------- bounds
MaxNameLen == 4

Alphabet == {"a", ".", "A", "@", "/"}

Names == UNION {[1..n -> Alphabet] : n \in 0..MaxNameLen}

\* Values the user can pass to --access; "absent": the option is not given.
AccessInputs == {"absent", "public", "restricted", "private"}

\* ------------------------------------------------------------- parseArgs
\* values: each boolean option defaults to false, access defaults to 'public'.
DefaultAccess == "public"

values ==
    [help    |-> argv.help,
     version |-> argv.version,
     dryRun  |-> argv.dryRun,
     access  |-> IF argv.access = "absent" THEN DefaultAccess ELSE argv.access]

positionals == argv.positionals

\* const packageName = positionals[0]; undefined and '' are both falsy.
packageNameMissing == Len(positionals) = 0 \/ positionals[1] = <<>>

packageName == positionals[1]

\* ------------------------------------------------- validPackageNameRegex
\* [a-z0-9-~]
FirstCharClass == {"a"}

\* [a-z0-9-._~]
RestCharClass == {"a", "."}

\* [a-z0-9-~][a-z0-9-._~]*
NamePart(s) ==
    /\ Len(s) >= 1
    /\ s[1] \in FirstCharClass
    /\ \A i \in 2..Len(s) : s[i] \in RestCharClass

validPackageNameRegex_noAnchor(s) ==
    \E i \in 1..Len(s) : \E j \in i..Len(s) : NamePart(SubSeq(s, i, j))

\* /^(?:@[a-z0-9-~][a-z0-9-._~]*\/)?[a-z0-9-~][a-z0-9-._~]*$/.test(s)
validPackageNameRegex(s) ==
    \/ NamePart(s)
    \/ \E k \in 3..Len(s) :
          /\ s[1] = "@"
          /\ s[k] = "/"
          /\ NamePart(SubSeq(s, 2, k - 1))
          /\ NamePart(SubSeq(s, k + 1, Len(s)))

\* packageName.startsWith('@')
startsWithAt(s) == Len(s) >= 1 /\ s[1] = "@"

\* ------------------------------------------------------ publish commands
publishCmd_alwaysAccess ==
    <<"npm", "publish", "--access", values.access>>

\* const publishCmd = packageName.startsWith('@') ? `npm publish --access
\* ${values.access}` : 'npm publish'
publishCmd ==
    IF startsWithAt(packageName)
    THEN <<"npm", "publish", "--access", values.access>>
    ELSE <<"npm", "publish">>

\* `npm publish${packageName.startsWith('@') ? ' --access ' + values.access : ''}`
\* printed by the dry-run branch
dryRunManualCmd ==
    <<"npm", "publish">> \o
    (IF startsWithAt(packageName) THEN <<"--access", values.access>> ELSE <<>>)

\* the same expression, printed by the publish catch block
failedManualCmd ==
    <<"npm", "publish">> \o
    (IF startsWithAt(packageName) THEN <<"--access", values.access>> ELSE <<>>)

\* if (!values['dry-run']) in the finally block
shouldCleanup_always == TRUE

shouldCleanup_never == FALSE

shouldCleanup == ~values.dryRun

\* ------------------------------------------------------------------ Init
Init ==
    /\ argv \in [help : BOOLEAN, version : BOOLEAN, dryRun : BOOLEAN,
                 access : AccessInputs,
                 positionals : {<<>>} \cup {<<n>> : n \in Names}]
    /\ pc = "checkHelp"
    /\ exitCode = 0
    /\ dirExists = FALSE
    /\ packageJsonExists = FALSE
    /\ readmeExists = FALSE
    /\ events = <<>>
    /\ executedCmd = <<>>
    /\ printedCmd = <<>>
    /\ warned = FALSE
    /\ publishResult = "none"
    /\ rmResult = "none"

\* process.exit(code)
Exit(code) ==
    /\ pc' = "done"
    /\ exitCode' = code

Disk == <<dirExists, packageJsonExists, readmeExists>>

Results == <<publishResult, rmResult>>

\* --------------------------------------------------------------- actions
CheckHelp_ignored ==
    /\ pc = "checkHelp"
    /\ pc' = "checkVersion"
    /\ UNCHANGED <<argv, exitCode, Disk, events, executedCmd, printedCmd, warned, Results>>

\* if (values.help) { console.log(usage); process.exit(0); }
CheckHelp ==
    /\ pc = "checkHelp"
    /\ IF values.help
       THEN Exit(0)
       ELSE pc' = "checkVersion" /\ UNCHANGED exitCode
    /\ UNCHANGED <<argv, Disk, events, executedCmd, printedCmd, warned, Results>>

\* if (values.version) { console.log(version); process.exit(0); }
CheckVersion ==
    /\ pc = "checkVersion"
    /\ IF values.version
       THEN Exit(0)
       ELSE pc' = "checkName" /\ UNCHANGED exitCode
    /\ UNCHANGED <<argv, Disk, events, executedCmd, printedCmd, warned, Results>>

\* if (!packageName) { ...; process.exit(1); }
CheckName ==
    /\ pc = "checkName"
    /\ IF packageNameMissing
       THEN Exit(1)
       ELSE pc' = "validate" /\ UNCHANGED exitCode
    /\ events' = Append(events, "checkName")
    /\ UNCHANGED <<argv, Disk, executedCmd, printedCmd, warned, Results>>

\* if (!validPackageNameRegex.test(packageName)) { ...; process.exit(1); }
Validate ==
    /\ pc = "validate"
    /\ IF ~validPackageNameRegex(packageName)
       THEN Exit(1)
       ELSE pc' = "mkdir" /\ UNCHANGED exitCode
    /\ events' = Append(events, "validate")
    /\ UNCHANGED <<argv, Disk, executedCmd, printedCmd, warned, Results>>

\* await mkdir(packageDir, { recursive: true }), outside the try block: a
\* rejection is an uncaught error, the process ends with exit code 1.
Mkdir ==
    /\ pc = "mkdir"
    /\ \E ok \in BOOLEAN :
          IF ok
          THEN /\ dirExists' = TRUE
               /\ events' = Append(events, "mkdir")
               /\ pc' = "writePackageJson"
               /\ UNCHANGED exitCode
          ELSE /\ Exit(1)
               /\ UNCHANGED <<dirExists, events>>
    /\ UNCHANGED <<argv, packageJsonExists, readmeExists, executedCmd,
                   printedCmd, warned, Results>>

\* await writeFile(join(packageDir, 'package.json'), ...), inside the try
WritePackageJson ==
    /\ pc = "writePackageJson"
    /\ \E ok \in BOOLEAN :
          IF ok
          THEN /\ packageJsonExists' = TRUE
               /\ events' = Append(events, "writePackageJson")
               /\ pc' = "writeReadme"
          ELSE /\ pc' = "outerCatch"
               /\ UNCHANGED <<packageJsonExists, events>>
    /\ UNCHANGED <<argv, exitCode, dirExists, readmeExists, executedCmd,
                   printedCmd, warned, Results>>

\* await writeFile(join(packageDir, 'README.md'), readmeContent)
WriteReadme ==
    /\ pc = "writeReadme"
    /\ \E ok \in BOOLEAN :
          IF ok
          THEN /\ readmeExists' = TRUE
               /\ events' = Append(events, "writeReadme")
               /\ pc' = "branch"
          ELSE /\ pc' = "outerCatch"
               /\ UNCHANGED <<readmeExists, events>>
    /\ UNCHANGED <<argv, exitCode, dirExists, packageJsonExists, executedCmd,
                   printedCmd, warned, Results>>

\* if (values['dry-run']) { print the location and the manual command }
DryRun ==
    /\ pc = "branch"
    /\ values.dryRun
    /\ printedCmd' = dryRunManualCmd
    /\ pc' = "finally"
    /\ UNCHANGED <<argv, exitCode, Disk, events, executedCmd, warned, Results>>

Publish_retry ==
    /\ pc = "branch"
    /\ ~values.dryRun
    /\ executedCmd' = publishCmd
    /\ events' = Append(events, "publish")
    /\ \E ok \in BOOLEAN :
          /\ publishResult' = IF ok THEN "ok" ELSE "failed"
          /\ pc' = IF ok THEN "finally"
                   ELSE IF Len(events) < 6 THEN "branch" ELSE "publishCatch"
    /\ UNCHANGED <<argv, exitCode, Disk, printedCmd, warned, rmResult>>

\* else { execSync(publishCmd, { cwd: packageDir, stdio: 'inherit' }); ... }
Publish ==
    /\ pc = "branch"
    /\ ~values.dryRun
    /\ executedCmd' = publishCmd
    /\ events' = Append(events, "publish")
    /\ \E ok \in BOOLEAN :
          /\ publishResult' = IF ok THEN "ok" ELSE "failed"
          /\ pc' = IF ok THEN "finally" ELSE "publishCatch"
    /\ UNCHANGED <<argv, exitCode, Disk, printedCmd, warned, rmResult>>

\* catch (publishError) { print the manual command; process.exit(1); }
PublishCatch ==
    /\ pc = "publishCatch"
    /\ printedCmd' = failedManualCmd
    /\ Exit(1)
    /\ UNCHANGED <<argv, Disk, events, executedCmd, warned, Results>>

\* catch (error) { console.error(...); process.exit(1); }
OuterCatch ==
    /\ pc = "outerCatch"
    /\ Exit(1)
    /\ UNCHANGED <<argv, Disk, events, executedCmd, printedCmd, warned, Results>>

Finally_escalate ==
    /\ pc = "finally"
    /\ IF shouldCleanup
       THEN /\ events' = Append(events, "rm")
            /\ \E ok \in BOOLEAN :
                  IF ok
                  THEN /\ dirExists' = FALSE
                       /\ packageJsonExists' = FALSE
                       /\ readmeExists' = FALSE
                       /\ rmResult' = "ok"
                       /\ exitCode' = 0
                       /\ UNCHANGED warned
                  ELSE /\ warned' = TRUE
                       /\ rmResult' = "failed"
                       /\ exitCode' = 1
                       /\ UNCHANGED Disk
       ELSE /\ exitCode' = 0
            /\ UNCHANGED <<Disk, events, warned, rmResult>>
    /\ pc' = "done"
    /\ UNCHANGED <<argv, executedCmd, printedCmd, publishResult>>

\* finally { if (!values['dry-run']) { try { await rm(packageDir, { recursive:
\* true, force: true }) } catch { console.warn(...) } } }, reached only when
\* the try block completed; then the script ends and the process exits 0.
Finally ==
    /\ pc = "finally"
    /\ IF shouldCleanup
       THEN /\ events' = Append(events, "rm")
            /\ \E ok \in BOOLEAN :
                  IF ok
                  THEN /\ dirExists' = FALSE
                       /\ packageJsonExists' = FALSE
                       /\ readmeExists' = FALSE
                       /\ rmResult' = "ok"
                       /\ UNCHANGED warned
                  ELSE /\ warned' = TRUE
                       /\ rmResult' = "failed"
                       /\ UNCHANGED Disk
       ELSE UNCHANGED <<Disk, events, warned, rmResult>>
    /\ Exit(0)
    /\ UNCHANGED <<argv, executedCmd, printedCmd, publishResult>>

Next ==
    \/ CheckHelp
    \/ CheckVersion
    \/ CheckName
    \/ Validate
    \/ Mkdir
    \/ WritePackageJson
    \/ WriteReadme
    \/ DryRun
    \/ Publish
    \/ PublishCatch
    \/ OuterCatch
    \/ Finally

Spec == Init /\ [][Next]_vars

\* ============================================================ properties
\* The naming grammar of the specification,
\* ^(@[a-z0-9-~][a-z0-9-._~]*/)?[a-z0-9-~][a-z0-9-._~]*$, as an automaton.
GrammarFirst == {"a"}

GrammarRest == {"a", "."}

GrammarDelta(q, c) ==
    CASE q = "start"     /\ c = "@"             -> "scopeHead"
      [] q = "start"     /\ c \in GrammarFirst  -> "name"
      [] q = "scopeHead" /\ c \in GrammarFirst  -> "scope"
      [] q = "scope"     /\ c \in GrammarRest   -> "scope"
      [] q = "scope"     /\ c = "/"             -> "nameHead"
      [] q = "nameHead"  /\ c \in GrammarFirst  -> "name"
      [] q = "name"      /\ c \in GrammarRest   -> "name"
      [] OTHER                                  -> "reject"

RECURSIVE GrammarState(_)
GrammarState(s) ==
    IF s = <<>> THEN "start"
    ELSE GrammarDelta(GrammarState(SubSeq(s, 1, Len(s) - 1)), s[Len(s)])

MatchesNamingGrammar(s) == GrammarState(s) = "name"

\* the name has an @scope/ prefix
HasScopePrefix(s) == \E k \in 2..Len(s) : s[1] = "@" /\ s[k] = "/"

HelpGiven == argv.help

VersionGiven == argv.version

DryRunGiven == argv.dryRun

AccessGiven == argv.access # "absent"

NameGiven == Len(argv.positionals) > 0 /\ argv.positionals[1] # <<>>

GivenName == argv.positionals[1]

NameValid == NameGiven /\ MatchesNamingGrammar(GivenName)

\* the invocation gets past --help and --version with a valid name
RunsValid == ~HelpGiven /\ ~VersionGiven /\ NameValid

Occurs(e) == \E i \in 1..Len(events) : events[i] = e

Count(e) == Cardinality({i \in 1..Len(events) : events[i] = e})

Before(e, f) ==
    \E i \in 1..Len(events) : \E j \in 1..Len(events) :
        i < j /\ events[i] = e /\ events[j] = f

HasAccessArg(cmd) == \E i \in 1..Len(cmd) : cmd[i] = "--access"

AccessLevelOf(cmd) == cmd[Len(cmd)]

NoSideEffect ==
    /\ ~Occurs("mkdir") /\ ~Occurs("writePackageJson") /\ ~Occurs("writeReadme")
    /\ ~Occurs("publish") /\ ~Occurs("rm")
    /\ ~dirExists /\ ~packageJsonExists /\ ~readmeExists
    /\ executedCmd = <<>>

\* a file write failed after the directory was created
WriteFailed ==
    Occurs("mkdir") /\ pc \in {"outerCatch", "done"} /\ ~Occurs("writeReadme")

\* C1: a non-dry-run invocation with a valid name whose publish command fails
\* ends with exit code 1, and the removal of the temporary directory has been
\* performed (removed, or warned about) before the process ends.
C1_PublishFailureStillCleansUp ==
    (pc = "done" /\ RunsValid /\ ~DryRunGiven /\ publishResult = "failed") =>
        /\ exitCode = 1
        /\ Occurs("rm")
        /\ (rmResult = "ok" /\ ~dirExists) \/ (rmResult = "failed" /\ warned)

\* C2: without --help/--version, a missing name or a name outside the naming
\* grammar ends the process with exit code 1, and no directory is created, no
\* file written and no publish command invoked.
C2_ValidationPrecedesSideEffects ==
    (~HelpGiven /\ ~VersionGiven /\ ~NameValid) =>
        /\ NoSideEffect
        /\ pc = "done" => exitCode = 1

C2_Witness ==
    /\ pc = "done" /\ exitCode = 1
    /\ ~HelpGiven /\ ~VersionGiven /\ NameGiven /\ ~NameValid
    /\ Occurs("validate")

\* C3: in dry-run mode with a valid name the publish command is never invoked
\* and the directory is never removed; when both writes succeeded, the
\* directory and both files exist at the end and the exit code is 0.
C3_DryRunKeepsDirectory ==
    (DryRunGiven /\ NameValid) =>
        /\ ~Occurs("publish") /\ executedCmd = <<>>
        /\ ~Occurs("rm")
        /\ Occurs("mkdir") => dirExists
        /\ (pc = "done" /\ Occurs("writePackageJson") /\ Occurs("writeReadme")) =>
              /\ dirExists /\ packageJsonExists /\ readmeExists
              /\ exitCode = 0

C3_Witness ==
    /\ pc = "done" /\ DryRunGiven /\ RunsValid
    /\ Occurs("writePackageJson") /\ Occurs("writeReadme")
    /\ dirExists /\ printedCmd # <<>>

\* C4: in a non-dry-run invocation with a valid name, scoped or not, whose
\* writes and publish succeed, the directory removal is performed after the
\* publish returns and the exit code is 0; if the removal succeeds the
\* directory does not exist at exit.
C4_SuccessRemovesDirectory ==
    /\ (pc = "done" /\ RunsValid /\ ~DryRunGiven /\ publishResult = "ok") =>
          /\ Count("rm") = 1
          /\ Before("publish", "rm")
          /\ exitCode = 0
          /\ rmResult = "ok" => (~dirExists /\ ~packageJsonExists /\ ~readmeExists)
    /\ Occurs("rm") => Before("publish", "rm")

C4_Witness ==
    /\ pc = "done" /\ RunsValid /\ ~DryRunGiven /\ publishResult = "ok"
    /\ HasScopePrefix(GivenName)
    /\ rmResult = "ok" /\ ~dirExists

\* C5: for a name the grammar accepts, the publish command, executed or
\* printed, has an access-level argument exactly when the name is scoped; an
\* unscoped name uses the bare command even when --access is given.
C5_AccessArgIffScoped ==
    NameValid =>
        /\ executedCmd # <<>> =>
              /\ HasAccessArg(executedCmd) <=> HasScopePrefix(GivenName)
              /\ ~HasScopePrefix(GivenName) => executedCmd = <<"npm", "publish">>
        /\ printedCmd # <<>> =>
              /\ HasAccessArg(printedCmd) <=> HasScopePrefix(GivenName)
              /\ ~HasScopePrefix(GivenName) => printedCmd = <<"npm", "publish">>

C5_Witness ==
    /\ NameValid /\ ~HasScopePrefix(GivenName) /\ AccessGiven
    /\ executedCmd = <<"npm", "publish">>
    /\ printedCmd = <<"npm", "publish">>

\* C6: a failed removal never changes the exit code: after a successful
\* publish the exit code is 0 whether the removal succeeds or fails, and a
\* failed removal only produces a warning.
C6_CleanupFailureKeepsExitCode ==
    (pc = "done" /\ ~DryRunGiven /\ publishResult = "ok") =>
        /\ exitCode = 0
        /\ rmResult \in {"ok", "failed"}
        /\ warned <=> rmResult = "failed"

C6_Witness ==
    /\ pc = "done" /\ ~DryRunGiven /\ publishResult = "ok"
    /\ rmResult = "failed" /\ warned /\ exitCode = 0 /\ dirExists

\* C7: the access level placed in the publish command, executed or printed,
\* is 'public' or 'restricted', and is 'public' when --access is not given.
C7_AccessLevelIsEnum ==
    /\ (executedCmd # <<>> /\ HasAccessArg(executedCmd)) =>
          /\ AccessLevelOf(executedCmd) \in {"public", "restricted"}
          /\ ~AccessGiven => AccessLevelOf(executedCmd) = "public"
    /\ (printedCmd # <<>> /\ HasAccessArg(printedCmd)) =>
          /\ AccessLevelOf(printedCmd) \in {"public", "restricted"}
          /\ ~AccessGiven => AccessLevelOf(printedCmd) = "public"

\* C8: with --help, whatever the other arguments, the process exits with code
\* 0 without checking the name, creating the directory, writing a file or
\* invoking the publish command.
C8_HelpBypassesEverything ==
    HelpGiven =>
        /\ pc \in {"checkHelp", "done"}
        /\ ~Occurs("checkName") /\ ~Occurs("validate")
        /\ NoSideEffect
        /\ pc = "done" => exitCode = 0

C8_Witness ==
    /\ pc = "done" /\ exitCode = 0
    /\ HelpGiven /\ VersionGiven /\ DryRunGiven /\ AccessGiven
    /\ NameGiven /\ ~NameValid

\* C9: a failed write of the manifest or the notice ends the process with
\* exit code 1 without a publish; in a non-dry-run invocation the directory
\* removal is still performed before the process ends, in dry-run mode the
\* directory is left in place.
C9_WriteFailureStillCleansUp ==
    (pc = "done" /\ WriteFailed) =>
        /\ exitCode = 1
        /\ ~Occurs("publish")
        /\ ~DryRunGiven => Occurs("rm")
        /\ DryRunGiven => (dirExists /\ ~Occurs("rm"))

\* C10: the publish command is invoked at most once, and only with the name
\* validated, dry-run off, the directory created and both files written, in
\* that order.
C10_PublishOnceAfterSetup ==
    /\ Count("publish") <= 1
    /\ (Occurs("publish") \/ executedCmd # <<>>) =>
          /\ NameValid /\ ~DryRunGiven
          /\ Len(events) >= 6
          /\ SubSeq(events, 1, 6) =
                <<"checkName", "validate", "mkdir", "writePackageJson",
                  "writeReadme", "publish">>
    /\ (pc \in {"publishCatch", "finally"} /\ Occurs("publish")) =>
          dirExists /\ packageJsonExists /\ readmeExists

C10_Witness ==
    /\ pc = "done" /\ publishResult = "failed" /\ Count("publish") = 1
    /\ exitCode = 1

====
